---- MODULE Spec2Model ----
(***************************************************************************)
(* Saved-item mutation and consistency engine of list-api.                 *)
(*                                                                         *)
(* The state is the primary `list` table keyed by (user_id, item_id), the  *)
(* (user, item, tag name) association table, the server clock, and a       *)
(* record of the last resolver / model call (its arguments, the table      *)
(* before it ran, what it returned or threw, and the ordered trace of the  *)
(* storage accesses and events it issued), and the replica's copy of the   *)
(* list table, which queries read and which lags behind the primary.       *)
(*                                                                         *)
(* inflight holds the requests that are served step by step.              *)
(*                                                                         *)
(* Spec runs the resolvers and the bulk methods of PocketSaveModel,        *)
(* SpecResolvers every modelled resolver of the GraphQL registry,          *)
(* SpecTags the resolvers that tag and untag saved items, SpecRow the row  *)
(* transform on arbitrary stored rows, and SpecConcurrent two requests in  *)
(* flight at once, interleaved at their awaits.                            *)
(***************************************************************************)
EXTENDS Integers, Sequences, FiniteSets, TLC

VARIABLES list, tags, clock, last, replica, inflight

vars == <<list, tags, clock, last, replica, inflight>>

---------------------------------------------------------------------------
(* Bounds of the model *)

\* the server clock runs 1..MaxClock; every handler call takes one tick
MaxClock == 3
\* largest caller-supplied timestamp
MaxTime == 2
\* longest tag id list handed to updateSavedItemTags
MaxTagIds == 2
\* longest identifier list handed to a bulk operation
MaxIds == 2
\* longest input list handed to createTags
MaxTagInputs == 1
\* longest input list handed to deleteSavedItemTags
MaxDeleteInputs == 2
\* latest date a stored date column holds
MaxRawDate == 2
\* largest status code a stored row holds (one past HIDDEN)
MaxRawStatus == 4

Users == {1, 2}
ItemIds == {1, 2}
\* identifiers as the GraphQL layer hands them over (strings)
IdStrings == {"1", "2", "01"}
Urls == {"u1", "u2"}
\* timestamps a caller may supply to a bulk operation
Timestamps == 1 .. MaxTime
Paths == {<<"batch", "saveArchive">>}

\* tag ids are the base64 of the tag names
TagIds == {"YQ==", "Yg=="}

Null == [null |-> TRUE]

---------------------------------------------------------------------------
(* Storage values *)

\* MySQL '0000-00-00 00:00:00'
ZeroDate == 0
\* a JS null date
NullDate == -1

\* PocketSaveStatus enum
UNREAD == 0
ARCHIVED == 1
DELETED == 2
HIDDEN == 3

\* dataService/utils mysqlDateConvert: the zero date becomes null
mysqlDateConvert(d) == IF d = ZeroDate THEN NullDate ELSE d

\* part_001 statusMap: status int -> enum string (undefined off the map)
statusMap(code) ==
  CASE code = UNREAD -> "UNREAD"
    [] code = ARCHIVED -> "ARCHIVED"
    [] code = DELETED -> "DELETED"
    [] code = HIDDEN -> "HIDDEN"
    [] OTHER -> "undefined"

\* mutant: time_favorited is passed through as stored
convert_RawFavorited(row) ==
  [favorite |-> row.favorite,
   given_url |-> row.given_url,
   item_id |-> row.item_id,
   status |-> statusMap(row.status),
   time_added |-> mysqlDateConvert(row.time_added),
   time_favorited |-> row.time_favorited,
   time_read |-> mysqlDateConvert(row.time_read),
   time_updated |-> mysqlDateConvert(row.time_updated),
   user_id |-> row.user_id]

\* part_001 convert: RawListResult -> ListResult
convert(row) ==
  [favorite |-> row.favorite,
   given_url |-> row.given_url,
   item_id |-> row.item_id,
   status |-> statusMap(row.status),
   time_added |-> mysqlDateConvert(row.time_added),
   time_favorited |-> mysqlDateConvert(row.time_favorited),
   time_read |-> mysqlDateConvert(row.time_read),
   time_updated |-> mysqlDateConvert(row.time_updated),
   user_id |-> row.user_id]

\* part_001 convertListResult, single-row overload
convertListResult(raw) == IF raw = Null THEN Null ELSE convert(raw)

\* mutant: the query forgets the user
getListRowById_AnyUser(db, user, id) ==
  IF \E u \in Users : id \in ItemIds /\ db[<<u, id>>] # Null
    THEN convert(db[<<CHOOSE u \in Users : db[<<u, id>>] # Null, id>>])
    ELSE Null

\* part_001 getListRowById: where user_id = caller and item_id = id, first()
getListRowById(db, user, id) ==
  convertListResult(IF id \in ItemIds THEN db[<<user, id>>] ELSE Null)

\* mutant: archivedAt is taken from the wrong column
transformListRow_ArchivedAtFromAdded(row) ==
  [archived |-> row.status = "ARCHIVED",
   archivedAt |-> IF row.status = "ARCHIVED" THEN row.time_added ELSE NullDate,
   createdAt |-> row.time_added,
   deletedAt |-> IF row.status = "DELETED" THEN row.time_updated ELSE NullDate,
   favorite |-> row.favorite = 1,
   favoritedAt |-> IF row.favorite = 1 THEN row.time_favorited ELSE NullDate,
   givenUrl |-> row.given_url,
   id |-> row.item_id,
   status |-> row.status,
   updatedAt |-> row.time_updated]

\* mutant: the archived test compares with the wrong status
transformListRow_WrongStatus(row) ==
  [archived |-> row.status = "UNREAD",
   archivedAt |-> IF row.status = "UNREAD" THEN row.time_read ELSE NullDate,
   createdAt |-> row.time_added,
   deletedAt |-> IF row.status = "DELETED" THEN row.time_updated ELSE NullDate,
   favorite |-> row.favorite = 1,
   favoritedAt |-> IF row.favorite = 1 THEN row.time_favorited ELSE NullDate,
   givenUrl |-> row.given_url,
   id |-> row.item_id,
   status |-> row.status,
   updatedAt |-> row.time_updated]

\* mutant: favoritedAt is taken from the column whatever the flag says
transformListRow_FavoritedAtAlways(row) ==
  [archived |-> row.status = "ARCHIVED",
   archivedAt |-> IF row.status = "ARCHIVED" THEN row.time_read ELSE NullDate,
   createdAt |-> row.time_added,
   deletedAt |-> IF row.status = "DELETED" THEN row.time_updated ELSE NullDate,
   favorite |-> row.favorite = 1,
   favoritedAt |-> row.time_favorited,
   givenUrl |-> row.given_url,
   id |-> row.item_id,
   status |-> row.status,
   updatedAt |-> row.time_updated]

\* part_000 transformListRow: ListResult -> PocketSave
transformListRow(row) ==
  [archived |-> row.status = "ARCHIVED",
   archivedAt |-> IF row.status = "ARCHIVED" THEN row.time_read ELSE NullDate,
   createdAt |-> row.time_added,
   deletedAt |-> IF row.status = "DELETED" THEN row.time_updated ELSE NullDate,
   favorite |-> row.favorite = 1,
   favoritedAt |-> IF row.favorite = 1 THEN row.time_favorited ELSE NullDate,
   givenUrl |-> row.given_url,
   id |-> row.item_id,
   status |-> row.status,
   updatedAt |-> row.time_updated]

---------------------------------------------------------------------------
(* Connections *)

\* database/client readClient() and writeClient(): the replica and the primary
readClient == "read"
writeClient == "write"

\* server/context: the connection a request's context is built with
contextDbClient == readClient

\* mutant: the wrapper leaves the context's connection as it was
executeMutation_KeepsClient(dbClient) == dbClient

\* part_001 241-252: context.dbClient = writeClient(), then the resolver runs
executeMutation(dbClient) == writeClient

\* the list table as seen through a connection
Table(dbClient) == IF dbClient = writeClient THEN list ELSE replica

\* part_001 226-234: every resolver under Mutation is wrapped; its services
\* are built from the context after the switch
mutationClient == executeMutation(contextDbClient)

\* what a write through a connection changes
Store(dbClient, db1) ==
  IF dbClient = writeClient
    THEN list' = db1 /\ UNCHANGED replica
    ELSE replica' = db1 /\ UNCHANGED list

---------------------------------------------------------------------------
(* Call record *)

TraceStep(k, type, item, aux) == [k |-> k, type |-> type, item |-> item, aux |-> aux]
Access(k) == TraceStep(k, "", Null, <<>>)
\* context.emitItemEvent(type, item, tags?)
emitItemEvent(type, item, aux) == TraceStep("emit", type, item, aux)

CallRecord(op, user, args, dbClient, pre, preTags, out, err, trace) ==
  [op |-> op, user |-> user, args |-> args, dbClient |-> dbClient,
   pre |-> pre, preTags |-> preTags,
   out |-> out, err |-> err, trace |-> trace]

EmptyList == [k \in Users \X ItemIds |-> Null]

\* the requests the server can be working on at the same time
Slots == {"a", "b"}

\* no call is being answered
Idle == CallRecord("idle", 0, Null, contextDbClient, EmptyList, {}, Null, Null, <<>>)

\* the server takes the next write request once the last response is out and
\* the replica has caught up (the replica lags at most one write behind),
\* while the clock is within the model's horizon
Ready == last = Idle /\ clock <= MaxClock /\ replica = list

---------------------------------------------------------------------------
(* Saved-item services (dataService/queryServices, mutationServices) *)

\* SavedItemDataService row -> SavedItem
SavedItemOf(row) ==
  [id |-> row.item_id,
   url |-> row.given_url,
   isFavorite |-> row.favorite = 1,
   isArchived |-> row.status = ARCHIVED,
   status |-> statusMap(row.status),
   favoritedAt |-> mysqlDateConvert(row.time_favorited),
   archivedAt |-> mysqlDateConvert(row.time_read),
   createdAt |-> mysqlDateConvert(row.time_added),
   updatedAt |-> mysqlDateConvert(row.time_updated)]

\* SavedItemDataService.getSavedItemById: scoped to the calling user
getSavedItemById(db, user, id) ==
  IF id \in ItemIds /\ db[<<user, id>>] # Null
    THEN SavedItemOf(db[<<user, id>>])
    ELSE Null

\* ParserCaller.getOrCreateItem: the canonical item id of a URL
getOrCreateItem(url) == IF url = "u1" THEN 1 ELSE 2

\* SavedItemMutationService.upsertSavedItem: insert, or update on the key
upsertSavedItemRow(db, user, itemId, url, isFavorite, now) ==
  LET old == db[<<user, itemId>>]
      wasFavorite == old # Null /\ old.favorite = 1
  IN [db EXCEPT ![<<user, itemId>>] =
        [favorite |-> IF isFavorite THEN 1 ELSE 0,
         given_url |-> url,
         item_id |-> itemId,
         status |-> UNREAD,
         time_added |-> IF old = Null THEN now ELSE old.time_added,
         time_favorited |-> IF isFavorite
                              THEN (IF wasFavorite THEN old.time_favorited ELSE now)
                              ELSE ZeroDate,
         time_read |-> ZeroDate,
         time_updated |-> now,
         user_id |-> user]]

---------------------------------------------------------------------------
(* part_002 upsertSavedItem *)

\* what the environment does to this call: nothing, the parser throws, the
\* write throws, the read-back after the write returns no row, or the
\* dispatch of the call's events fails
Faults == {"none", "parser", "write", "readback", "emit"}

\* mutant: the favorite event follows the request alone
shouldSendFavoriteEvent_IgnoresExisting(isFavorite, existingItem) == isFavorite

\* part_002 52-53
shouldSendFavoriteEvent(isFavorite, existingItem) ==
  isFavorite /\ ~(existingItem # Null /\ existingItem.isFavorite)

\* mutant: the requested flag is written as given
upsertIsFavorite_AsGiven(isFavorite, existingItem) == isFavorite

\* part_002 55-57: don't unfavorite an existing favorited item
upsertIsFavorite(isFavorite, existingItem) ==
  IF existingItem # Null /\ ~isFavorite
    THEN existingItem.isFavorite
    ELSE isFavorite

\* mutant: the else branch is lost, ADD_ITEM is emitted for updates too
upsertEvents_AlwaysAdd(existingItem, upsertedItem, sendFavorite) ==
  (IF existingItem # Null /\ existingItem.isArchived
     THEN <<emitItemEvent("UNARCHIVE_ITEM", upsertedItem, <<>>)>>
     ELSE <<>>)
  \o <<emitItemEvent("ADD_ITEM", upsertedItem, <<>>)>>
  \o (IF sendFavorite
        THEN <<emitItemEvent("FAVORITE_ITEM", upsertedItem, <<>>)>>
        ELSE <<>>)

\* mutant: the favorite event is emitted first
upsertEvents_FavoriteFirst(existingItem, upsertedItem, sendFavorite) ==
  (IF sendFavorite
     THEN <<emitItemEvent("FAVORITE_ITEM", upsertedItem, <<>>)>>
     ELSE <<>>)
  \o (IF existingItem # Null
        THEN (IF existingItem.isArchived
                THEN <<emitItemEvent("UNARCHIVE_ITEM", upsertedItem, <<>>)>>
                ELSE <<>>)
        ELSE <<emitItemEvent("ADD_ITEM", upsertedItem, <<>>)>>)

\* part_002 71-82: the events of one successful upsert, in order
upsertEvents(existingItem, upsertedItem, sendFavorite) ==
  (IF existingItem # Null
     THEN (IF existingItem.isArchived
             THEN <<emitItemEvent("UNARCHIVE_ITEM", upsertedItem, <<>>)>>
             ELSE <<>>)
     ELSE <<emitItemEvent("ADD_ITEM", upsertedItem, <<>>)>>)
  \o (IF sendFavorite
        THEN <<emitItemEvent("FAVORITE_ITEM", upsertedItem, <<>>)>>
        ELSE <<>>)

\* part_002 84-88: the catch block rethrows with the input's URL
upsertError(url) ==
  [kind |-> "Error", message |-> "unable to add item with url", url |-> url]

\* mutant: the read-back is trusted
readBackMissing_Never(upsertedItem) == FALSE

\* part_002 66: the read-back after the write found nothing
readBackMissing(upsertedItem) == upsertedItem = Null

Outcome(db, out, err, trace) == [db |-> db, out |-> out, err |-> err, trace |-> trace]

\* context.emitItemEvent: a failed dispatch is caught and reported, the
\* caller sees nothing of it
emitFailureReport(fault, events) ==
  IF fault = "emit" /\ events # <<>> THEN <<Access("report")>> ELSE <<>>

\* mutant: the resolver waits for the dispatch, whose failure lands in the
\* catch block
upsertSavedItemRun_AwaitsDispatch(db, user, url, isFavorite, fault, now) ==
  LET itemId == getOrCreateItem(url)
      existingItem == getSavedItemById(db, user, itemId)
      sendFavorite == shouldSendFavoriteEvent(isFavorite, existingItem)
      favorite == upsertIsFavorite(isFavorite, existingItem)
      db1 == upsertSavedItemRow(db, user, itemId, url, favorite, now)
      upsertedItem == IF fault = "readback" THEN Null
                      ELSE getSavedItemById(db1, user, itemId)
      events == upsertEvents(existingItem, upsertedItem, sendFavorite)
      t1 == <<Access("parser")>>
      t3 == t1 \o <<Access("read"), Access("write")>>
      t4 == t3 \o <<Access("read")>>
  IN IF fault = "parser" THEN Outcome(db, Null, upsertError(url), t1)
     ELSE IF fault = "write" THEN Outcome(db, Null, upsertError(url), t3)
     ELSE IF readBackMissing(upsertedItem) THEN Outcome(db1, Null, upsertError(url), t4)
     ELSE IF fault = "emit" /\ events # <<>>
       THEN Outcome(db1, Null, upsertError(url), t4 \o <<events[1]>>)
     ELSE Outcome(db1, upsertedItem, Null, t4 \o events)

\* mutant: a parser failure is swallowed and the upsert carries on
upsertSavedItemRun_ParserFailureIgnored(db, user, url, isFavorite, fault, now) ==
  LET itemId == getOrCreateItem(url)
      existingItem == getSavedItemById(db, user, itemId)
      sendFavorite == shouldSendFavoriteEvent(isFavorite, existingItem)
      favorite == upsertIsFavorite(isFavorite, existingItem)
      db1 == upsertSavedItemRow(db, user, itemId, url, favorite, now)
      upsertedItem == IF fault = "readback" THEN Null
                      ELSE getSavedItemById(db1, user, itemId)
      events == upsertEvents(existingItem, upsertedItem, sendFavorite)
      t1 == <<Access("parser")>>
      t3 == t1 \o <<Access("read"), Access("write")>>
      t4 == t3 \o <<Access("read")>>
  IN IF fault = "write" THEN Outcome(db, Null, upsertError(url), t3)
     ELSE IF readBackMissing(upsertedItem) THEN Outcome(db1, Null, upsertError(url), t4)
     ELSE Outcome(db1, upsertedItem, Null,
                  t4 \o events \o emitFailureReport(fault, events))

\* part_002 37-89
upsertSavedItemRun(db, user, url, isFavorite, fault, now) ==
  LET itemId == getOrCreateItem(url)
      existingItem == getSavedItemById(db, user, itemId)
      sendFavorite == shouldSendFavoriteEvent(isFavorite, existingItem)
      favorite == upsertIsFavorite(isFavorite, existingItem)
      db1 == upsertSavedItemRow(db, user, itemId, url, favorite, now)
      upsertedItem == IF fault = "readback" THEN Null
                      ELSE getSavedItemById(db1, user, itemId)
      t1 == <<Access("parser")>>
      t3 == t1 \o <<Access("read"), Access("write")>>
      t4 == t3 \o <<Access("read")>>
  IN IF fault = "parser" THEN Outcome(db, Null, upsertError(url), t1)
     ELSE IF fault = "write" THEN Outcome(db, Null, upsertError(url), t3)
     ELSE IF readBackMissing(upsertedItem) THEN Outcome(db1, Null, upsertError(url), t4)
     ELSE Outcome(db1, upsertedItem, Null,
                  t4 \o upsertEvents(existingItem, upsertedItem, sendFavorite)
                     \o emitFailureReport(fault, upsertEvents(existingItem, upsertedItem,
                                                              sendFavorite)))

upsertSavedItem ==
  /\ Ready
  /\ \E user \in Users, url \in Urls, isFavorite \in BOOLEAN, fault \in Faults :
       LET r == upsertSavedItemRun(Table(mutationClient), user, url, isFavorite, fault, clock)
       IN /\ Store(mutationClient, r.db)
          /\ last' = CallRecord("upsertSavedItem", user,
                                [url |-> url, isFavorite |-> isFavorite, fault |-> fault],
                                mutationClient, Table(mutationClient), tags,
                                r.out, r.err, r.trace)
  /\ clock' = clock + 1
  /\ UNCHANGED <<tags, inflight>>

---------------------------------------------------------------------------
(* part_002 single-item mutations *)

\* SavedItemMutationService.updateSavedItemFavoriteProperty
updateSavedItemFavoriteProperty(db, user, id, favorite, now) ==
  LET old == db[<<user, id>>]
  IN IF old = Null THEN db
     ELSE [db EXCEPT ![<<user, id>>] =
             [old EXCEPT !.favorite = IF favorite THEN 1 ELSE 0,
                         !.time_favorited =
                            IF favorite
                              THEN (IF old.favorite = 1 THEN old.time_favorited ELSE now)
                              ELSE ZeroDate,
                         !.time_updated = now]]

\* SavedItemMutationService.updateSavedItemArchiveProperty
updateSavedItemArchiveProperty(db, user, id, archived, now) ==
  LET old == db[<<user, id>>]
  IN IF old = Null \/ (archived /\ old.status = ARCHIVED) THEN db
     ELSE [db EXCEPT ![<<user, id>>] =
             [old EXCEPT !.status = IF archived THEN ARCHIVED ELSE UNREAD,
                         !.time_read = IF archived THEN now ELSE ZeroDate,
                         !.time_updated = now]]

\* SavedItemMutationService.deleteSavedItem (soft delete)
deleteSavedItemRow(db, user, id, now) ==
  LET old == db[<<user, id>>]
  IN IF old = Null THEN db
     ELSE [db EXCEPT ![<<user, id>>] =
             [old EXCEPT !.status = DELETED, !.time_updated = now]]

\* SavedItemMutationService.updateSavedItemUnDelete
updateSavedItemUnDeleteRow(db, user, id, now) ==
  LET old == db[<<user, id>>]
  IN IF old = Null \/ old.status # DELETED THEN db
     ELSE [db EXCEPT ![<<user, id>>] =
             [old EXCEPT !.status = UNREAD, !.time_updated = now]]

\* part_002 97-197: write, read back, emit on what was read, return it
writeReadEmit(db1, user, id, type) ==
  LET savedItem == getSavedItemById(db1, user, id)
  IN Outcome(db1, savedItem, Null,
             <<Access("write"), Access("read"), emitItemEvent(type, savedItem, <<>>)>>)

\* part_002 97-111
updateSavedItemFavoriteRun(db, user, id, now) ==
  writeReadEmit(updateSavedItemFavoriteProperty(db, user, id, TRUE, now),
                user, id, "FAVORITE_ITEM")

\* part_002 119-133
updateSavedItemUnFavoriteRun(db, user, id, now) ==
  writeReadEmit(updateSavedItemFavoriteProperty(db, user, id, FALSE, now),
                user, id, "UNFAVORITE_ITEM")

\* part_002 141-155
updateSavedItemArchiveRun(db, user, id, now) ==
  writeReadEmit(updateSavedItemArchiveProperty(db, user, id, TRUE, now),
                user, id, "ARCHIVE_ITEM")

\* part_002 163-177
updateSavedItemUnArchiveRun(db, user, id, now) ==
  writeReadEmit(updateSavedItemArchiveProperty(db, user, id, FALSE, now),
                user, id, "UNARCHIVE_ITEM")

\* part_002 185-197: returns the id, not the item
deleteSavedItemRun(db, user, id, now) ==
  LET r == writeReadEmit(deleteSavedItemRow(db, user, id, now), user, id, "DELETE_ITEM")
  IN [r EXCEPT !.out = [id |-> id]]

\* part_002 205-215: no event
updateSavedItemUnDeleteRun(db, user, id, now) ==
  LET db1 == updateSavedItemUnDeleteRow(db, user, id, now)
  IN Outcome(db1, getSavedItemById(db1, user, id), Null,
             <<Access("write"), Access("read")>>)

\* one resolver call on a single saved item id: the tables, the clock and
\* the call record after it
SingleCall(op, user, id, r) ==
  /\ Store(mutationClient, r.db)
  /\ last' = CallRecord(op, user, [id |-> id], mutationClient, Table(mutationClient),
                        tags, r.out, r.err, r.trace)
  /\ clock' = clock + 1
  /\ UNCHANGED <<tags, inflight>>

updateSavedItemFavorite ==
  /\ Ready
  /\ \E user \in Users, id \in ItemIds :
       SingleCall("updateSavedItemFavorite", user, id,
                  updateSavedItemFavoriteRun(Table(mutationClient), user, id, clock))

updateSavedItemUnFavorite ==
  /\ Ready
  /\ \E user \in Users, id \in ItemIds :
       SingleCall("updateSavedItemUnFavorite", user, id,
                  updateSavedItemUnFavoriteRun(Table(mutationClient), user, id, clock))

updateSavedItemArchive ==
  /\ Ready
  /\ \E user \in Users, id \in ItemIds :
       SingleCall("updateSavedItemArchive", user, id,
                  updateSavedItemArchiveRun(Table(mutationClient), user, id, clock))

updateSavedItemUnArchive ==
  /\ Ready
  /\ \E user \in Users, id \in ItemIds :
       SingleCall("updateSavedItemUnArchive", user, id,
                  updateSavedItemUnArchiveRun(Table(mutationClient), user, id, clock))

deleteSavedItem ==
  /\ Ready
  /\ \E user \in Users, id \in ItemIds :
       SingleCall("deleteSavedItem", user, id,
                  deleteSavedItemRun(Table(mutationClient), user, id, clock))

updateSavedItemUnDelete ==
  /\ Ready
  /\ \E user \in Users, id \in ItemIds :
       SingleCall("updateSavedItemUnDelete", user, id,
                  updateSavedItemUnDeleteRun(Table(mutationClient), user, id, clock))

---------------------------------------------------------------------------
(* part_000 PocketSaveModel bulk operations *)

\* JS parseInt on the identifier strings
ParseInt(s) ==
  CASE s = "1" -> 1
    [] s = "01" -> 1
    [] s = "2" -> 2

\* JS Number.prototype.toString on an item id
NumberToString(n) == IF n = 1 THEN "1" ELSE "2"

\* dataService/utils uniqueArray: first occurrences, in order
RECURSIVE uniqueArray(_)
uniqueArray(seq) ==
  IF seq = <<>> THEN <<>>
  ELSE LET front == uniqueArray(SubSeq(seq, 1, Len(seq) - 1))
           x == seq[Len(seq)]
       IN IF \E i \in 1 .. Len(front) : front[i] = x THEN front ELSE Append(front, x)

Range(seq) == {seq[i] : i \in 1 .. Len(seq)}

MapParseInt(ids) == [i \in 1 .. Len(ids) |-> ParseInt(ids[i])]

\* the rows a query returns, in primary-key order
RECURSIVE RowsInKeyOrder(_, _, _)
RowsInKeyOrder(db, user, idSet) ==
  IF idSet = {} THEN <<>>
  ELSE LET lo == CHOOSE x \in idSet : \A y \in idSet : x <= y
       IN <<convert(db[<<user, lo>>])>> \o RowsInKeyOrder(db, user, idSet \ {lo})

\* PocketSaveDataService bulk write, step 2: the rows one conditional update
\* is scoped to, before its precondition: (user, id in ids)
InScope(db, user, ids, k) == k[1] = user /\ k[2] \in Range(ids) /\ db[k] # Null

\* PocketSaveDataService bulk write, steps 3-4: one read of the same ids for
\* the same user after the update; ids the read does not return are missing
bulkResult(db1, user, ids) ==
  LET found == {id \in Range(ids) : db1[<<user, id>>] # Null}
      missingIdx == {i \in 1 .. Len(ids) : ids[i] \notin found}
  IN [db |-> db1,
      updated |-> RowsInKeyOrder(db1, user, found),
      missing |-> [i \in 1 .. Cardinality(missingIdx) |->
                     NumberToString(ids[CHOOSE j \in missingIdx :
                                    Cardinality({m \in missingIdx : m < j}) = i - 1])]]

\* mutant: the update is unconditional, so an archived row is stamped again
archiveListRow_Refresh(db, user, ids, timestamp) ==
  bulkResult([k \in DOMAIN db |->
                IF InScope(db, user, ids, k)
                  THEN [db[k] EXCEPT !.status = ARCHIVED,
                                     !.time_read = timestamp,
                                     !.time_updated = timestamp]
                  ELSE db[k]],
             user, ids)

\* PocketSaveDataService.archiveListRow
archiveListRow(db, user, ids, timestamp) ==
  bulkResult([k \in DOMAIN db |->
                IF InScope(db, user, ids, k) /\ db[k].status # ARCHIVED
                  THEN [db[k] EXCEPT !.status = ARCHIVED,
                                     !.time_read = timestamp,
                                     !.time_updated = timestamp]
                  ELSE db[k]],
             user, ids)

\* PocketSaveDataService.unArchiveListRow
unArchiveListRow(db, user, ids, timestamp) ==
  bulkResult([k \in DOMAIN db |->
                IF InScope(db, user, ids, k) /\ db[k].status # UNREAD
                  THEN [db[k] EXCEPT !.status = UNREAD,
                                     !.time_read = ZeroDate,
                                     !.time_updated = timestamp]
                  ELSE db[k]],
             user, ids)

\* PocketSaveDataService.favoriteListRow
favoriteListRow(db, user, ids, timestamp) ==
  bulkResult([k \in DOMAIN db |->
                IF InScope(db, user, ids, k) /\ db[k].favorite # 1
                  THEN [db[k] EXCEPT !.favorite = 1,
                                     !.time_favorited = timestamp,
                                     !.time_updated = timestamp]
                  ELSE db[k]],
             user, ids)

\* PocketSaveDataService.unFavoriteListRow
unFavoriteListRow(db, user, ids, timestamp) ==
  bulkResult([k \in DOMAIN db |->
                IF InScope(db, user, ids, k) /\ db[k].favorite # 0
                  THEN [db[k] EXCEPT !.favorite = 0,
                                     !.time_favorited = ZeroDate,
                                     !.time_updated = timestamp]
                  ELSE db[k]],
             user, ids)

\* part_000 41-44
notFoundPayload(key, value) ==
  [message |-> [key |-> key, value |-> value], typename |-> "NotFound"]

\* models.baseError.path: the GraphQL path as a dotted string
RECURSIVE baseErrorPath(_)
baseErrorPath(path) ==
  IF Len(path) = 1 THEN path[1]
  ELSE baseErrorPath(SubSeq(path, 1, Len(path) - 1)) \o "." \o path[Len(path)]

\* mutant: the updated saves are dropped as soon as one id is missing
formatSaveWriteMutationPayload_AllOrNothing(missing, updated, path) ==
  LET errors == [i \in 1 .. Len(missing) |->
                   [message |-> notFoundPayload("id", missing[i]).message,
                    typename |-> "NotFound",
                    path |-> baseErrorPath(path)]]
      save == IF Len(missing) > 0 THEN <<>>
              ELSE [i \in 1 .. Len(updated) |-> transformListRow(updated[i])]
  IN [save |-> save, errors |-> errors]

\* part_000 183-198
formatSaveWriteMutationPayload(missing, updated, path) ==
  LET errors == IF Len(missing) > 0
                  THEN [i \in 1 .. Len(missing) |-> notFoundPayload("id", missing[i])]
                  ELSE <<>>
      save == [i \in 1 .. Len(updated) |-> transformListRow(updated[i])]
      resolvedErrors == [i \in 1 .. Len(errors) |->
                           [message |-> errors[i].message,
                            typename |-> errors[i].typename,
                            path |-> baseErrorPath(path)]]
  IN [save |-> save, errors |-> resolvedErrors]

\* part_000 86-88, 119, 145, 171: event emission is a TODO; nothing is emitted
bulkEvents(type, save) == <<>>

\* part_000 74-93 (and 108-121, 134-147, 160-173): the data service's
\* outcome r formatted into the payload
bulkOutcome(r, path, type) ==
  LET payload == formatSaveWriteMutationPayload(r.missing, r.updated, path)
  IN Outcome(r.db, payload, Null,
             <<Access("write"), Access("read")>> \o bulkEvents(type, payload.save))

\* mutant: the parsed ids are handed on without uniqueArray
saveArchiveRun_NoDedupe(db, user, ids, timestamp, path) ==
  bulkOutcome(archiveListRow(db, user, MapParseInt(ids), timestamp),
              path, "ARCHIVE_ITEM")

\* part_000 74-93
saveArchiveRun(db, user, ids, timestamp, path) ==
  bulkOutcome(archiveListRow(db, user, uniqueArray(MapParseInt(ids)), timestamp),
              path, "ARCHIVE_ITEM")

\* part_000 108-121
saveUnArchiveRun(db, user, ids, timestamp, path) ==
  bulkOutcome(unArchiveListRow(db, user, uniqueArray(MapParseInt(ids)), timestamp),
              path, "UNARCHIVE_ITEM")

\* part_000 134-147
saveFavoriteRun(db, user, ids, timestamp, path) ==
  bulkOutcome(favoriteListRow(db, user, uniqueArray(MapParseInt(ids)), timestamp),
              path, "FAVORITE_ITEM")

\* part_000 160-173
saveUnFavoriteRun(db, user, ids, timestamp, path) ==
  bulkOutcome(unFavoriteListRow(db, user, uniqueArray(MapParseInt(ids)), timestamp),
              path, "UNFAVORITE_ITEM")

\* identifier lists of length 0 .. MaxIds
IdLists == UNION {[1 .. n -> IdStrings] : n \in 0 .. MaxIds}

BulkCall(op, user, ids, timestamp, path, r) ==
  /\ Store(writeClient, r.db)
  /\ last' = CallRecord(op, user,
                        [ids |-> ids, timestamp |-> timestamp, path |-> path],
                        writeClient, list, tags, r.out, r.err, r.trace)
  /\ clock' = clock + 1
  /\ UNCHANGED <<tags, inflight>>

saveArchive ==
  /\ Ready
  /\ \E user \in Users, ids \in IdLists, timestamp \in Timestamps, path \in Paths :
       BulkCall("saveArchive", user, ids, timestamp, path,
                saveArchiveRun(list, user, ids, timestamp, path))

saveUnArchive ==
  /\ Ready
  /\ \E user \in Users, ids \in IdLists, timestamp \in Timestamps, path \in Paths :
       BulkCall("saveUnArchive", user, ids, timestamp, path,
                saveUnArchiveRun(list, user, ids, timestamp, path))

saveFavorite ==
  /\ Ready
  /\ \E user \in Users, ids \in IdLists, timestamp \in Timestamps, path \in Paths :
       BulkCall("saveFavorite", user, ids, timestamp, path,
                saveFavoriteRun(list, user, ids, timestamp, path))

saveUnFavorite ==
  /\ Ready
  /\ \E user \in Users, ids \in IdLists, timestamp \in Timestamps, path \in Paths :
       BulkCall("saveUnFavorite", user, ids, timestamp, path,
                saveUnFavoriteRun(list, user, ids, timestamp, path))

---------------------------------------------------------------------------
(* part_002 tag mutations *)

\* mutant: the existence check of the saved item is lost
updateSavedItemTagsRun_NoExistenceCheck(db, tg, user, savedItemId, tagIds) ==
  LET tg1 == {a \in tg : ~(a[1] = user /\ a[2] = savedItemId)}
               \cup {<<user, savedItemId, IF tagIds[i] = "YQ==" THEN "a" ELSE "b">> :
                       i \in 1 .. Len(tagIds)}
      row == db[<<user, savedItemId>>]
      names == [i \in 1 .. Len(tagIds) |-> IF tagIds[i] = "YQ==" THEN "a" ELSE "b"]
  IN IF Len(tagIds) <= 0
       THEN [tg |-> tg, out |-> Null, err |-> [kind |-> "UserInputError"], trace |-> <<>>]
     ELSE [tg |-> tg1, out |-> row, err |-> Null,
           trace |-> <<Access("read"), Access("write"), Access("read"),
                       emitItemEvent("REPLACE_TAGS", row, names)>>]

\* dataService/utils decodeBase64ToPlainText
decodeBase64ToPlainText(id) == IF id = "YQ==" THEN "a" ELSE "b"

\* TagMutationService.updateSavedItemTags: the item's associations are
\* replaced by the input's tags
updateSavedItemTagsRows(tg, user, savedItemId, tagIds) ==
  {a \in tg : ~(a[1] = user /\ a[2] = savedItemId)}
    \cup {<<user, savedItemId, decodeBase64ToPlainText(tagIds[i])>> : i \in 1 .. Len(tagIds)}

TagOutcome(tg, out, err, trace) == [tg |-> tg, out |-> out, err |-> err, trace |-> trace]

\* mutant: the length test is off by one
tagIdsRejected_OffByOne(tagIds) == Len(tagIds) < 0

\* part_002 229-234
tagIdsRejected(tagIds) == Len(tagIds) <= 0

\* part_002 224-256
updateSavedItemTagsRun(db, tg, user, savedItemId, tagIds) ==
  LET tg1 == updateSavedItemTagsRows(tg, user, savedItemId, tagIds)
      savedItem == getSavedItemById(db, user, savedItemId)
      names == [i \in 1 .. Len(tagIds) |-> decodeBase64ToPlainText(tagIds[i])]
  IN IF tagIdsRejected(tagIds)
       THEN TagOutcome(tg, Null, [kind |-> "UserInputError"], <<>>)
     ELSE IF savedItem = Null
       THEN TagOutcome(tg, Null, [kind |-> "NotFoundError"], <<Access("read")>>)
     ELSE TagOutcome(tg1, savedItem, Null,
                     <<Access("read"), Access("write"), Access("read"),
                       emitItemEvent("REPLACE_TAGS", savedItem, names)>>)

TagIdLists == UNION {[1 .. n -> TagIds] : n \in 0 .. MaxTagIds}

updateSavedItemTags ==
  /\ Ready
  /\ \E user \in Users, savedItemId \in ItemIds, tagIds \in TagIdLists :
       LET r == updateSavedItemTagsRun(Table(mutationClient), tags, user, savedItemId, tagIds)
       IN /\ tags' = r.tg
          /\ last' = CallRecord("updateSavedItemTags", user,
                                [savedItemId |-> savedItemId, tagIds |-> tagIds],
                                mutationClient, Table(mutationClient), tags,
                                r.out, r.err, r.trace)
  /\ clock' = clock + 1
  /\ UNCHANGED <<list, replica, inflight>>

\* the tag names in the order a query returns them
TagNames == <<"a", "b">>

\* TagDataService.getTagsByUserItem: the names of the tags of one item of
\* the user
getTagsByUserItem(tg, user, savedItemId) ==
  SelectSeq(TagNames, LAMBDA n : <<user, savedItemId, n>> \in tg)

\* TagMutationService.updateSavedItemRemoveTags: every association of the
\* item is deleted
updateSavedItemRemoveTagsRows(tg, user, savedItemId) ==
  {a \in tg : ~(a[1] = user /\ a[2] = savedItemId)}

\* TagDataService.getTagByName: a tag is its name and the saved items it is
\* associated with; a name without an association is no tag
getTagByName(tg, user, name) ==
  LET items == {id \in ItemIds : <<user, id, name>> \in tg}
  IN IF items = {} THEN Null ELSE [name |-> name, savedItems |-> items]

\* mutant: the tag names are read after the associations are deleted
updateSavedItemRemoveTagsRun_ReadAfterDelete(db, tg, user, savedItemId) ==
  LET tg1 == {a \in tg : ~(a[1] = user /\ a[2] = savedItemId)}
      tagsCleared == SelectSeq(TagNames, LAMBDA n : <<user, savedItemId, n>> \in tg1)
      row == db[<<user, savedItemId>>]
  IN IF row = Null
       THEN [tg |-> tg1, out |-> Null, err |-> [kind |-> "NotFoundError"],
             trace |-> <<Access("write"), Access("read"), Access("read")>>]
     ELSE [tg |-> tg1, out |-> row, err |-> Null,
           trace |-> <<Access("write"), Access("read"), Access("read"),
                       emitItemEvent("CLEAR_TAGS", row, tagsCleared)>>]

\* mutant: the call to the mutation service is lost
updateSavedItemRemoveTagsRun_NoDelete(db, tg, user, savedItemId) ==
  LET tagsCleared == SelectSeq(TagNames, LAMBDA n : <<user, savedItemId, n>> \in tg)
      row == db[<<user, savedItemId>>]
  IN IF row = Null
       THEN [tg |-> tg, out |-> Null, err |-> [kind |-> "NotFoundError"],
             trace |-> <<Access("read"), Access("read")>>]
     ELSE [tg |-> tg, out |-> row, err |-> Null,
           trace |-> <<Access("read"), Access("read"),
                       emitItemEvent("CLEAR_TAGS", row, tagsCleared)>>]

\* mutant: the saved item is looked up before anything is deleted
updateSavedItemRemoveTagsRun_CheckFirst(db, tg, user, savedItemId) ==
  LET tagsCleared == SelectSeq(TagNames, LAMBDA n : <<user, savedItemId, n>> \in tg)
      tg1 == {a \in tg : ~(a[1] = user /\ a[2] = savedItemId)}
      row == db[<<user, savedItemId>>]
  IN IF row = Null
       THEN [tg |-> tg, out |-> Null, err |-> [kind |-> "NotFoundError"],
             trace |-> <<Access("read"), Access("read")>>]
     ELSE [tg |-> tg1, out |-> row, err |-> Null,
           trace |-> <<Access("read"), Access("read"), Access("write"),
                       emitItemEvent("CLEAR_TAGS", row, tagsCleared)>>]

\* part_002 267-295
updateSavedItemRemoveTagsRun(db, tg, user, savedItemId) ==
  LET tagsCleared == getTagsByUserItem(tg, user, savedItemId)
      tg1 == updateSavedItemRemoveTagsRows(tg, user, savedItemId)
      savedItem == getSavedItemById(db, user, savedItemId)
  IN IF savedItem = Null
       THEN TagOutcome(tg1, Null, [kind |-> "NotFoundError"],
                       <<Access("read"), Access("write"), Access("read")>>)
     ELSE TagOutcome(tg1, savedItem, Null,
                     <<Access("read"), Access("write"), Access("read"),
                       emitItemEvent("CLEAR_TAGS", savedItem, tagsCleared)>>)

updateSavedItemRemoveTags ==
  /\ Ready
  /\ \E user \in Users, savedItemId \in ItemIds :
       LET r == updateSavedItemRemoveTagsRun(Table(mutationClient), tags, user, savedItemId)
       IN /\ tags' = r.tg
          /\ last' = CallRecord("updateSavedItemRemoveTags", user,
                                [savedItemId |-> savedItemId],
                                mutationClient, Table(mutationClient), tags,
                                r.out, r.err, r.trace)
  /\ clock' = clock + 1
  /\ UNCHANGED <<list, replica, inflight>>

\* TagCreateInput: a tag name and the saved item to put it on
TagCreateInputs == {[name |-> n, savedItemId |-> id] : n \in Range(TagNames), id \in ItemIds}
TagCreateInputLists == UNION {[1 .. n -> TagCreateInputs] : n \in 0 .. MaxTagInputs}

\* TagMutationService.insertTags: one association per input entry
insertTags(tg, user, input) ==
  tg \cup {<<user, input[i].savedItemId, input[i].name>> : i \in 1 .. Len(input)}

\* TagDataService.getTagsByName: the user's tags with these names
getTagsByName(tg, user, names) ==
  LET found == SelectSeq(names, LAMBDA n : getTagByName(tg, user, n) # Null)
  IN [i \in 1 .. Len(found) |-> getTagByName(tg, user, found[i])]

\* part_002 311-318 with getSavedItemMapFromTags: one ADD_TAGS per saved
\* item that carries one of the tags, in key order; the item handed to the
\* event is the pending lookup of that saved item
RECURSIVE createTagsEvents(_, _, _, _)
createTagsEvents(db, user, tagList, idSet) ==
  IF idSet = {} THEN <<>>
  ELSE LET lo == CHOOSE x \in idSet : \A y \in idSet : x <= y
           mine == SelectSeq(tagList, LAMBDA t : lo \in t.savedItems)
       IN <<Access("read"),
            emitItemEvent("ADD_TAGS", getSavedItemById(db, user, lo),
                          [i \in 1 .. Len(mine) |-> mine[i].name])>>
          \o createTagsEvents(db, user, tagList, idSet \ {lo})

\* part_002 297-320
createTagsRun(db, tg, user, input) ==
  LET uniqueTagNames == uniqueArray([i \in 1 .. Len(input) |-> input[i].name])
      tg1 == insertTags(tg, user, input)
      tagList == getTagsByName(tg1, user, uniqueTagNames)
      idSet == UNION {tagList[i].savedItems : i \in 1 .. Len(tagList)}
  IN TagOutcome(tg1, [tags |-> tagList], Null,
                <<Access("write"), Access("read")>>
                  \o createTagsEvents(db, user, tagList, idSet))

createTags ==
  /\ Ready
  /\ \E user \in Users, input \in TagCreateInputLists :
       LET r == createTagsRun(Table(mutationClient), tags, user, input)
       IN /\ tags' = r.tg
          /\ last' = CallRecord("createTags", user, [input |-> input],
                                mutationClient, Table(mutationClient), tags,
                                r.out, r.err, r.trace)
  /\ clock' = clock + 1
  /\ UNCHANGED <<list, replica, inflight>>

\* DeleteSavedItemTagsInput: a saved item and the ids of the tags to take
\* off it
DeleteTagIdLists == {<<"YQ==">>, <<"YQ==", "Yg==">>}
DeleteSavedItemTagsInputs ==
  {[savedItemId |-> id, tagIds |-> t] : id \in ItemIds, t \in DeleteTagIdLists}
DeleteSavedItemTagsInputLists ==
  UNION {[1 .. n -> DeleteSavedItemTagsInputs] : n \in 0 .. MaxDeleteInputs}

\* what the environment does to a deleteSavedItemTags call: nothing, or the
\* deletion throws
DeleteFaults == {"none", "write"}

\* the tag names an input entry lists
decodedTagIds(entry) ==
  [j \in 1 .. Len(entry.tagIds) |-> decodeBase64ToPlainText(entry.tagIds[j])]

\* TagMutationService.deleteSavedItemAssociations: the (item, tag)
\* associations the input names; they are deleted and returned
deleteSavedItemAssociations(user, input) ==
  UNION {{<<user, input[i].savedItemId, n>> : n \in Range(decodedTagIds(input[i]))} :
           i \in 1 .. Len(input)}

\* part_002 335-343: per input entry the pending lookup of its saved item
\* and one REMOVE_TAGS
deleteSavedItemTagsEvents(db, user, input) ==
  [k \in 1 .. 2 * Len(input) |->
     IF k % 2 = 1
       THEN Access("read")
       ELSE emitItemEvent("REMOVE_TAGS",
                          getSavedItemById(db, user, input[k \div 2].savedItemId),
                          decodedTagIds(input[k \div 2]))]

\* part_002 346-353: the catch block rethrows
deleteSavedItemTagsError ==
  [kind |-> "Error",
   message |-> "deleteSavedItemTags: server error while untagging a savedItem"]

\* mutant: the events are emitted before the deletion is awaited
deleteSavedItemTagsRun_EmitsFirst(db, tg, user, input, fault) ==
  LET associations == deleteSavedItemAssociations(user, input)
      events == deleteSavedItemTagsEvents(db, user, input)
  IN IF fault = "write"
       THEN TagOutcome(tg, Null, deleteSavedItemTagsError, events \o <<Access("write")>>)
       ELSE TagOutcome(tg \ associations, [associations |-> associations], Null,
                       events \o <<Access("write")>>)

\* part_002 325-354
deleteSavedItemTagsRun(db, tg, user, input, fault) ==
  LET associations == deleteSavedItemAssociations(user, input)
  IN IF fault = "write"
       THEN TagOutcome(tg, Null, deleteSavedItemTagsError, <<Access("write")>>)
       ELSE TagOutcome(tg \ associations, [associations |-> associations], Null,
                       <<Access("write")>> \o deleteSavedItemTagsEvents(db, user, input))

deleteSavedItemTags ==
  /\ Ready
  /\ \E user \in Users, input \in DeleteSavedItemTagsInputLists, fault \in DeleteFaults :
       LET r == deleteSavedItemTagsRun(Table(mutationClient), tags, user, input, fault)
       IN /\ tags' = r.tg
          /\ last' = CallRecord("deleteSavedItemTags", user,
                                [input |-> input, fault |-> fault],
                                mutationClient, Table(mutationClient), tags,
                                r.out, r.err, r.trace)
  /\ clock' = clock + 1
  /\ UNCHANGED <<list, replica, inflight>>

---------------------------------------------------------------------------
(* part_000 queries and replication *)

\* part_000 52-59; the data service was built from the request's context
\* (part_000 15, part_001 84-88) and the list table compares item_id with the
\* id string by its number
getByIdRun(db, user, id) ==
  LET listRow == getListRowById(db, user, ParseInt(id))
  IN IF listRow = Null
       THEN Outcome(db, Null, [kind |-> "NotFoundError"], <<Access("read")>>)
       ELSE Outcome(db, transformListRow(listRow), Null, <<Access("read")>>)

getById ==
  /\ last = Idle
  /\ \E user \in Users, id \in IdStrings :
       LET r == getByIdRun(Table(contextDbClient), user, id)
       IN last' = CallRecord("getById", user, [id |-> id], contextDbClient,
                             Table(contextDbClient), tags, r.out, r.err, r.trace)
  /\ UNCHANGED <<list, tags, clock, replica, inflight>>

\* the replica catches up with the primary
Replicate ==
  /\ last = Idle
  /\ replica # list
  /\ replica' = list
  /\ UNCHANGED <<list, tags, clock, last, inflight>>

---------------------------------------------------------------------------

Init ==
  /\ list = EmptyList
  /\ tags = {}
  /\ clock = 1
  /\ last = Idle
  /\ replica = EmptyList
  /\ inflight = [s \in Slots |-> Null]

\* the response of the last call is delivered
Respond ==
  /\ last # Idle
  /\ last' = Idle
  /\ UNCHANGED <<list, tags, clock, replica, inflight>>

Next ==
  \/ upsertSavedItem
  \/ updateSavedItemFavorite
  \/ updateSavedItemUnFavorite
  \/ updateSavedItemArchive
  \/ updateSavedItemUnArchive
  \/ deleteSavedItem
  \/ updateSavedItemUnDelete
  \/ saveArchive
  \/ saveUnArchive
  \/ saveFavorite
  \/ saveUnFavorite
  \/ updateSavedItemTags
  \/ getById
  \/ Replicate
  \/ Respond

Spec == Init /\ [][Next]_vars

\* the requests the GraphQL resolvers of part_001 178-234 serve: every
\* modelled resolver under Mutation, and the query of a saved item
NextResolvers ==
  \/ upsertSavedItem
  \/ updateSavedItemFavorite
  \/ updateSavedItemUnFavorite
  \/ updateSavedItemArchive
  \/ updateSavedItemUnArchive
  \/ deleteSavedItem
  \/ updateSavedItemUnDelete
  \/ updateSavedItemTags
  \/ updateSavedItemRemoveTags
  \/ createTags
  \/ getById
  \/ Replicate
  \/ Respond

SpecResolvers == Init /\ [][NextResolvers]_vars

\* the resolvers that put tags on saved items and take single tags off them
NextTags ==
  \/ upsertSavedItem
  \/ createTags
  \/ deleteSavedItemTags
  \/ Replicate
  \/ Respond

SpecTags == Init /\ [][NextTags]_vars

---------------------------------------------------------------------------
(* Row Transform on arbitrary stored rows *)

\* the rows the list table's column types admit
RawDates == ZeroDate .. MaxRawDate
RawStatuses == 0 .. MaxRawStatus
RawListResults ==
  [favorite : {0, 1}, given_url : {"u1"}, item_id : {1},
   status : RawStatuses,
   time_added : RawDates, time_favorited : RawDates,
   time_read : RawDates, time_updated : RawDates,
   user_id : {1}]

\* part_001 138-146: the query hands a stored row to convertListResult
readListRow ==
  /\ last = Idle
  /\ \E raw \in RawListResults :
       last' = CallRecord("readListRow", raw.user_id, [row |-> raw],
                          contextDbClient, EmptyList, {}, Null, Null, <<>>)
  /\ UNCHANGED <<list, tags, clock, replica, inflight>>

\* part_001 145 and part_000 57: convertListResult, then transformListRow
transformRow ==
  /\ last.op = "readListRow"
  /\ last' = [last EXCEPT !.op = "transformListRow",
                          !.out = transformListRow(convertListResult(last.args.row))]
  /\ UNCHANGED <<list, tags, clock, replica, inflight>>

NextRow ==
  \/ readListRow
  \/ transformRow

SpecRow == Init /\ [][NextRow]_vars

---------------------------------------------------------------------------
(* Requests in flight: a resolver runs up to its next await, the awaited  *)
(* storage or parser call completes, and the resolver resumes.  Requests  *)
(* served in parallel interleave at these points.                         *)

\* the mutations served step by step
ConcurrentRequests ==
  {[op |-> "upsertSavedItem", user |-> user,
    args |-> [url |-> url, isFavorite |-> isFavorite]] :
     user \in Users, url \in Urls, isFavorite \in BOOLEAN}
  \cup
  {[op |-> op, user |-> user, args |-> [id |-> id]] :
     op \in {"updateSavedItemArchive", "updateSavedItemUnArchive"},
     user \in Users, id \in ItemIds}

\* a request as the server starts on it: upsertSavedItem first awaits the
\* parser (part_002 46), the archive resolvers their write (part_002 146,
\* 168); wrote is the clock at which its write was applied
InflightCall(request) ==
  [op |-> request.op, user |-> request.user, args |-> request.args,
   pc |-> IF request.op = "upsertSavedItem" THEN "parser" ELSE "write",
   itemId |-> IF request.op = "upsertSavedItem" THEN 0 ELSE request.args.id,
   existingItem |-> Null, out |-> Null, err |-> Null, wrote |-> 0,
   events |-> <<>>]

\* part_002 46: the parser answered
awaitGetOrCreateItem(call) ==
  [call EXCEPT !.itemId = getOrCreateItem(call.args.url), !.pc = "existing"]

\* part_002 47-49: the lookup of the user's saved item answered
awaitExistingItem(call, db) ==
  [call EXCEPT !.existingItem = getSavedItemById(db, call.user, call.itemId),
               !.pc = "write"]

\* mutant: the write of an unarchive request is never applied
awaitWrite_UnArchiveIgnored(call, db, now) ==
  IF call.op = "upsertSavedItem"
    THEN upsertSavedItemRow(db, call.user, call.itemId, call.args.url,
                            upsertIsFavorite(call.args.isFavorite, call.existingItem),
                            now)
    ELSE IF call.op = "updateSavedItemArchive"
      THEN updateSavedItemArchiveProperty(db, call.user, call.itemId, TRUE, now)
      ELSE db

\* part_002 52-61, 146-149, 168-171: the table after the storage layer
\* applied the request's write
awaitWrite(call, db, now) ==
  IF call.op = "upsertSavedItem"
    THEN upsertSavedItemRow(db, call.user, call.itemId, call.args.url,
                            upsertIsFavorite(call.args.isFavorite, call.existingItem),
                            now)
    ELSE updateSavedItemArchiveProperty(db, call.user, call.itemId,
                                        call.op = "updateSavedItemArchive", now)

\* part_002 62-83, 150-154, 172-176: the read-back answered; the resolver
\* emits and returns without awaiting again
awaitReadBack(call, db) ==
  LET savedItem == getSavedItemById(db, call.user, call.itemId)
  IN IF call.op = "upsertSavedItem"
       THEN IF readBackMissing(savedItem)
              THEN [call EXCEPT !.err = upsertError(call.args.url), !.pc = "done"]
              ELSE [call EXCEPT
                      !.out = savedItem,
                      !.events = upsertEvents(call.existingItem, savedItem,
                                   shouldSendFavoriteEvent(call.args.isFavorite,
                                                           call.existingItem)),
                      !.pc = "done"]
       ELSE [call EXCEPT
               !.out = savedItem,
               !.events = <<emitItemEvent(IF call.op = "updateSavedItemArchive"
                                            THEN "ARCHIVE_ITEM"
                                            ELSE "UNARCHIVE_ITEM",
                                          savedItem, <<>>)>>,
               !.pc = "done"]

\* the slots whose request waits at pc
Waiting(pc) == {s \in Slots : inflight[s] # Null /\ inflight[s].pc = pc}

\* the transport hands a request to a free slot
receiveRequest ==
  /\ last = Idle
  /\ clock <= MaxClock
  /\ \E s \in Slots, request \in ConcurrentRequests :
       /\ inflight[s] = Null
       /\ inflight' = [inflight EXCEPT ![s] = InflightCall(request)]
  /\ UNCHANGED <<list, tags, clock, last, replica>>

resumeAfterParser ==
  /\ \E s \in Waiting("parser") :
       inflight' = [inflight EXCEPT ![s] = awaitGetOrCreateItem(inflight[s])]
  /\ UNCHANGED <<list, tags, clock, last, replica>>

resumeAfterExistingItem ==
  /\ \E s \in Waiting("existing") :
       inflight' = [inflight EXCEPT
                      ![s] = awaitExistingItem(inflight[s], Table(mutationClient))]
  /\ UNCHANGED <<list, tags, clock, last, replica>>

resumeAfterWrite ==
  /\ clock <= MaxClock
  /\ \E s \in Waiting("write") :
       /\ Store(mutationClient,
                awaitWrite(inflight[s], Table(mutationClient), clock))
       /\ inflight' = [inflight EXCEPT ![s] = [inflight[s] EXCEPT !.wrote = clock,
                                                                 !.pc = "readback"]]
  /\ clock' = clock + 1
  /\ UNCHANGED <<tags, last>>

resumeAfterReadBack ==
  /\ \E s \in Waiting("readback") :
       inflight' = [inflight EXCEPT
                      ![s] = awaitReadBack(inflight[s], Table(mutationClient))]
  /\ UNCHANGED <<list, tags, clock, last, replica>>

\* the response of a finished request is delivered
deliverResponse ==
  /\ \E s \in Waiting("done") : inflight' = [inflight EXCEPT ![s] = Null]
  /\ UNCHANGED <<list, tags, clock, last, replica>>

\* every read of these resolvers goes through mutationClient: the replica
\* plays no part in them
NextConcurrent ==
  \/ receiveRequest
  \/ resumeAfterParser
  \/ resumeAfterExistingItem
  \/ resumeAfterWrite
  \/ resumeAfterReadBack
  \/ deliverResponse

SpecConcurrent == Init /\ [][NextConcurrent]_vars
---------------------------------------------------------------------------
(* Properties *)

\* the events of the last call, in order
Events == SelectSeq(last.trace, LAMBDA s : s.k = "emit")
CountEvents(type) == Len(SelectSeq(last.trace, LAMBDA s : s.k = "emit" /\ s.type = type))

UpsertOk == last.op = "upsertSavedItem" /\ last.err = Null
\* the row the last upsert found for its URL, before it wrote
UpsertExisting == last.pre[<<last.user, getOrCreateItem(last.args.url)>>]
UpsertExistingFavorite == UpsertExisting # Null /\ UpsertExisting.favorite = 1

\* C1: a successful upsertSavedItem returns isFavorite = (requested isFavorite
\* OR the existing item's isFavorite); on an existing favorited item the result
\* is favorited whatever was requested, and on a new add it is the requested
\* value.
C1_UpsertFavoriteIsRequestedOrExisting ==
  UpsertOk =>
    /\ last.out.isFavorite = (last.args.isFavorite \/ UpsertExistingFavorite)
    /\ (list[<<last.user, last.out.id>>].favorite = 1) = last.out.isFavorite
    /\ UpsertExistingFavorite => last.out.isFavorite
    /\ UpsertExisting = Null => last.out.isFavorite = last.args.isFavorite

\* an upsert with isFavorite = false on an existing favorited item succeeded
C1_Witness ==
  /\ UpsertOk
  /\ UpsertExistingFavorite
  /\ ~last.args.isFavorite
  /\ last.out.isFavorite

BulkOps == {"saveArchive", "saveUnArchive", "saveFavorite", "saveUnFavorite"}
\* the identifiers of the last bulk call, the ones the caller owned before
\* it, and the ones its payload lists as updated and as not found
BulkIds == {ParseInt(last.args.ids[i]) : i \in 1 .. Len(last.args.ids)}
BulkOwned == {id \in BulkIds : last.pre[<<last.user, id>>] # Null}
BulkMissing == BulkIds \ BulkOwned
SaveIds == {last.out.save[i].id : i \in 1 .. Len(last.out.save)}
ErrorIds == {last.out.errors[i].message.value : i \in 1 .. Len(last.out.errors)}
\* the payload partitions the identifiers: missing = S minus owned, updated
\* = the rest, one entry each
BulkPartition ==
  /\ ErrorIds = {NumberToString(id) : id \in BulkMissing}
  /\ Len(last.out.errors) = Cardinality(BulkMissing)
  /\ \A i \in 1 .. Len(last.out.errors) : last.out.errors[i].typename = "NotFound"
  /\ SaveIds = BulkOwned
  /\ Len(last.out.save) = Cardinality(BulkOwned)
WasArchived(id) == last.pre[<<last.user, id>>].status = ARCHIVED

C3_Original ==
  (last.op \in BulkOps /\ BulkMissing # {}) =>
    /\ list = last.pre
    /\ Len(last.out.errors) > 0

\* C4 as stated: archiving an archived save again with a later timestamp t2
\* refreshes archivedAt to t2.
C4_Original ==
  last.op = "saveArchive" =>
    \A id \in BulkOwned :
      (WasArchived(id) /\ last.pre[<<last.user, id>>].time_read < last.args.timestamp) =>
        /\ list[<<last.user, id>>].status = ARCHIVED
        /\ list[<<last.user, id>>].time_read = last.args.timestamp

\* C4 (amended): archiving a save archived at t1 again with a timestamp
\* t2 > t1 leaves status ARCHIVED and archivedAt = t1, in the table and in the
\* returned save.
C4_ArchiveAgainKeepsArchivedAt ==
  last.op = "saveArchive" =>
    \A i \in 1 .. Len(last.out.save) :
      LET save == last.out.save[i]
          old == last.pre[<<last.user, save.id>>]
      IN (old.status = ARCHIVED /\ old.time_read < last.args.timestamp) =>
           /\ list[<<last.user, save.id>>].status = ARCHIVED
           /\ list[<<last.user, save.id>>].time_read = old.time_read
           /\ save.status = "ARCHIVED"
           /\ save.archivedAt = old.time_read

\* a save archived at t1 was archived again with t2 > t1
C4_Witness ==
  /\ last.op = "saveArchive"
  /\ \E id \in BulkOwned :
       /\ WasArchived(id)
       /\ last.pre[<<last.user, id>>].time_read < last.args.timestamp
       /\ list[<<last.user, id>>].time_read < last.args.timestamp

\* C5: archiving an archived save changes none of its fields; a bulk archive
\* still returns it among the updated saves, as it was, and reports no error
\* for it.
C5_ArchiveArchivedIsNoOp ==
  /\ last.op = "saveArchive" =>
       \A id \in BulkOwned :
         WasArchived(id) =>
           /\ list[<<last.user, id>>] = last.pre[<<last.user, id>>]
           /\ NumberToString(id) \notin ErrorIds
           /\ \E i \in 1 .. Len(last.out.save) :
                /\ last.out.save[i].id = id
                /\ last.out.save[i].status = "ARCHIVED"
                /\ last.out.save[i].archivedAt = last.pre[<<last.user, id>>].time_read
                /\ last.out.save[i].updatedAt = last.pre[<<last.user, id>>].time_updated
  /\ last.op = "updateSavedItemArchive" =>
       LET old == last.pre[<<last.user, last.args.id>>]
       IN (old # Null /\ old.status = ARCHIVED) => list[<<last.user, last.args.id>>] = old

\* a bulk archive with a timestamp other than the save's archivedAt ran on
\* an archived save
C5_Witness ==
  /\ last.op = "saveArchive"
  /\ \E id \in BulkOwned :
       /\ WasArchived(id)
       /\ last.pre[<<last.user, id>>].time_read # last.args.timestamp
       /\ id \in SaveIds

\* C6 as stated: every successful upsertSavedItem is either a new add
\* (exactly one ADD_ITEM, no UNARCHIVE_ITEM) or an un-archive (exactly one
\* UNARCHIVE_ITEM, no ADD_ITEM).
C6_Original ==
  UpsertOk =>
    \/ /\ UpsertExisting = Null
       /\ CountEvents("ADD_ITEM") = 1
       /\ CountEvents("UNARCHIVE_ITEM") = 0
    \/ /\ UpsertExisting # Null
       /\ UpsertExisting.status = ARCHIVED
       /\ CountEvents("UNARCHIVE_ITEM") = 1
       /\ CountEvents("ADD_ITEM") = 0

\* C6 (amended): a successful upsertSavedItem emits exactly one ADD_ITEM and
\* no UNARCHIVE_ITEM when no saved item existed, exactly one UNARCHIVE_ITEM and
\* no ADD_ITEM when one existed with status ARCHIVED, and neither when one
\* existed with another status; the two are never both emitted.
C6_UpsertAddOrUnarchiveEvents ==
  UpsertOk =>
    /\ CountEvents("ADD_ITEM") = IF UpsertExisting = Null THEN 1 ELSE 0
    /\ CountEvents("UNARCHIVE_ITEM") =
         IF UpsertExisting # Null /\ UpsertExisting.status = ARCHIVED THEN 1 ELSE 0
    /\ CountEvents("ADD_ITEM") + CountEvents("UNARCHIVE_ITEM") <= 1

\* an upsert of an archived save emitted UNARCHIVE_ITEM and left it unread
C6_Witness ==
  /\ UpsertOk
  /\ UpsertExisting # Null
  /\ UpsertExisting.status = ARCHIVED
  /\ CountEvents("UNARCHIVE_ITEM") = 1
  /\ last.out.status = "UNREAD"

\* C7: a successful upsertSavedItem emits FAVORITE_ITEM once if isFavorite =
\* true was requested and the existing item (if any) was not favorited, and
\* not at all otherwise; the event comes on top of the ADD_ITEM or
\* UNARCHIVE_ITEM event, which is emitted whether or not it is.
C7_UpsertFavoriteEvent ==
  UpsertOk =>
    /\ CountEvents("FAVORITE_ITEM") =
         IF last.args.isFavorite /\ ~UpsertExistingFavorite THEN 1 ELSE 0
    /\ Len(Events) = CountEvents("FAVORITE_ITEM")
                       + (IF UpsertExisting = Null \/ UpsertExisting.status = ARCHIVED
                            THEN 1 ELSE 0)

\* an upsert was both a new add and a favorite: two events
C7_Witness ==
  /\ UpsertOk
  /\ CountEvents("ADD_ITEM") = 1
  /\ CountEvents("FAVORITE_ITEM") = 1
  /\ Len(Events) = 2

\* the event kind that announces a bulk operation's state change
BulkEventType(op) ==
  CASE op = "saveArchive" -> "ARCHIVE_ITEM"
    [] op = "saveUnArchive" -> "UNARCHIVE_ITEM"
    [] op = "saveFavorite" -> "FAVORITE_ITEM"
    [] op = "saveUnFavorite" -> "UNFAVORITE_ITEM"

\* C8: every save a bulk saveArchive, saveUnArchive, saveFavorite or
\* saveUnFavorite returns as updated has exactly one event of the matching
\* kind emitted for it during the call.
C8_Original ==
  last.op \in BulkOps =>
    \A i \in 1 .. Len(last.out.save) :
      Cardinality({j \in 1 .. Len(last.trace) :
                     /\ last.trace[j].k = "emit"
                     /\ last.trace[j].type = BulkEventType(last.op)
                     /\ last.trace[j].item = last.out.save[i]}) = 1

\* C9: when the resolver fails, or the read-back after the write returns
\* nothing, upsertSavedItem throws an error that carries the input's URL,
\* returns no item, and has emitted no event.
C9_UpsertFailureCarriesUrl ==
  (last.op = "upsertSavedItem" /\ last.args.fault \in {"parser", "readback"}) =>
    /\ last.err # Null
    /\ last.err.url = last.args.url
    /\ last.out = Null
    /\ Len(Events) = 0

\* the read-back returned nothing after the row was written, and the call
\* failed with the URL
C9_Witness ==
  /\ last.op = "upsertSavedItem"
  /\ last.args.fault = "readback"
  /\ list # last.pre
  /\ last.err # Null
  /\ last.err.url = last.args.url

\* C10: updateSavedItemTags with an empty tagIds list is rejected with a
\* validation error before any storage access: no read, no write (the tag
\* associations and the list table are as before), no event.
C10_EmptyTagIdsRejectedFirst ==
  (last.op = "updateSavedItemTags" /\ Len(last.args.tagIds) = 0) =>
    /\ last.err # Null
    /\ last.err.kind = "UserInputError"
    /\ last.out = Null
    /\ last.trace = <<>>
    /\ tags = last.preTags
    /\ list = last.pre

\* an empty tagIds list was rejected for an existing save that has tags
C10_Witness ==
  /\ last.op = "updateSavedItemTags"
  /\ last.args.tagIds = <<>>
  /\ last.err # Null
  /\ last.pre[<<last.user, last.args.savedItemId>>] # Null
  /\ \E a \in tags : a[1] = last.user /\ a[2] = last.args.savedItemId

\* C11: updateSavedItemTags (non-empty tagIds) for a savedItemId with no saved
\* item of the calling user fails with NotFoundError, leaves every tag
\* association as it was and emits no REPLACE_TAGS; when the item exists,
\* REPLACE_TAGS is emitted exactly once, after the write, and carries the item
\* as read back after the write.
C11_UpdateTagsChecksItemThenEmitsOnce ==
  (last.op = "updateSavedItemTags" /\ Len(last.args.tagIds) > 0) =>
    IF getSavedItemById(last.pre, last.user, last.args.savedItemId) = Null
      THEN /\ last.err = [kind |-> "NotFoundError"]
           /\ tags = last.preTags
           /\ CountEvents("REPLACE_TAGS") = 0
      ELSE /\ last.err = Null
           /\ CountEvents("REPLACE_TAGS") = 1
           /\ \E w, r, e \in DOMAIN last.trace :
                /\ w < r /\ r < e
                /\ last.trace[w].k = "write"
                /\ last.trace[r].k = "read"
                /\ last.trace[e].k = "emit"
                /\ last.trace[e].type = "REPLACE_TAGS"
                /\ last.trace[e].item =
                     getSavedItemById(list, last.user, last.args.savedItemId)
                /\ \A j \in DOMAIN last.trace : j > e => last.trace[j].k # "write"

\* tags were asked for an item that only the other user has saved, while the
\* caller has tags on another item
C11_Witness ==
  /\ last.op = "updateSavedItemTags"
  /\ Len(last.args.tagIds) > 0
  /\ last.pre[<<last.user, last.args.savedItemId>>] = Null
  /\ \E u \in Users : u # last.user /\ last.pre[<<u, last.args.savedItemId>>] # Null
  /\ last.err = [kind |-> "NotFoundError"]
  /\ tags # {}

\* the tag names associated with the call's saved item before the call
TagsBefore == {a[3] : a \in {b \in last.preTags :
                               b[1] = last.user /\ b[2] = last.args.savedItemId}}

\* C12: updateSavedItemRemoveTags reads the item's tag names before it
\* deletes the associations: the CLEAR_TAGS event of the call carries exactly
\* the set of tag names the item had immediately before the call, and after
\* the call the item has no tag association.
C12_ClearTagsCarriesTagsBefore ==
  last.op = "updateSavedItemRemoveTags" =>
    /\ \A a \in tags : ~(a[1] = last.user /\ a[2] = last.args.savedItemId)
    /\ \A e \in DOMAIN last.trace :
         (last.trace[e].k = "emit" /\ last.trace[e].type = "CLEAR_TAGS") =>
           /\ Range(last.trace[e].aux) = TagsBefore
           /\ Len(last.trace[e].aux) = Cardinality(TagsBefore)
    /\ last.err = Null => CountEvents("CLEAR_TAGS") = 1
    /\ \E r, w \in DOMAIN last.trace :
         r < w /\ last.trace[r].k = "read" /\ last.trace[w].k = "write"

\* the tags of an existing, tagged save were cleared
C12_Witness ==
  /\ last.op = "updateSavedItemRemoveTags"
  /\ last.err = Null
  /\ TagsBefore # {}
  /\ CountEvents("CLEAR_TAGS") = 1

\* the tag names the last call took off its saved item
TagsDissociated ==
  IF last.op = "updateSavedItemRemoveTags" THEN TagsBefore
  ELSE IF last.op = "updateSavedItemTags" /\ last.err = Null
    THEN TagsBefore \ {decodeBase64ToPlainText(id) : id \in Range(last.args.tagIds)}
  ELSE {}

Transformed == last.op = "transformListRow"
RawRow == last.args.row

\* C14 as stated: for every stored row, convert followed by transformListRow
\* gives archivedAt present iff status = ARCHIVED, favoritedAt present iff
\* isFavorite, deletedAt present iff status = DELETED; a row with status code 1
\* gives ARCHIVED, archivedAt present, deletedAt absent.
C14_Original ==
  Transformed =>
    /\ (last.out.archivedAt # NullDate) <=> (last.out.status = "ARCHIVED")
    /\ (last.out.favoritedAt # NullDate) <=> last.out.favorite
    /\ (last.out.deletedAt # NullDate) <=> (last.out.status = "DELETED")
    /\ RawRow.status = 1 =>
         /\ last.out.status = "ARCHIVED"
         /\ last.out.archivedAt # NullDate
         /\ last.out.deletedAt = NullDate

\* C14 (amended): archivedAt is present iff status = ARCHIVED and the stored
\* time_read is not the zero date, favoritedAt iff isFavorite and time_favorited
\* is not the zero date, deletedAt iff status = DELETED and time_updated is not
\* the zero date; a row with status code 1 gives ARCHIVED, deletedAt absent and
\* archivedAt = time_read unless that is the zero date.
C14_DerivedDatesFollowStatus ==
  Transformed =>
    /\ (last.out.archivedAt # NullDate) <=>
         (last.out.status = "ARCHIVED" /\ RawRow.time_read # ZeroDate)
    /\ (last.out.favoritedAt # NullDate) <=>
         (last.out.favorite /\ RawRow.time_favorited # ZeroDate)
    /\ (last.out.deletedAt # NullDate) <=>
         (last.out.status = "DELETED" /\ RawRow.time_updated # ZeroDate)
    /\ RawRow.status = 1 =>
         /\ last.out.status = "ARCHIVED"
         /\ last.out.deletedAt = NullDate
         /\ RawRow.time_read # ZeroDate => last.out.archivedAt = RawRow.time_read

\* an archived row whose time_read is the zero date was transformed, with
\* favorite and deleted columns that hold dates the entity must not show
C14_Witness ==
  /\ Transformed
  /\ RawRow.status = 1
  /\ RawRow.time_read = ZeroDate
  /\ RawRow.favorite = 0
  /\ RawRow.time_favorited # ZeroDate
  /\ last.out.archivedAt = NullDate

\* C15 as stated: the Row Transform fails with MalformedRowError for every
\* stored row whose status code is outside the mapping {0, 1, 2, HIDDEN}; it
\* never returns an entity with a defaulted or undefined status.
C15_Original ==
  (Transformed /\ RawRow.status \notin {UNREAD, ARCHIVED, DELETED, HIDDEN}) =>
    /\ last.err # Null
    /\ last.out = Null

\* C16: the zero date never surfaces: createdAt, archivedAt, favoritedAt,
\* deletedAt and updatedAt of a transformed entity are each absent or a real
\* date; a row with time_favorited = zero date and favorite = 0 has
\* favoritedAt absent.
C16_ZeroDateNeverSurfaces ==
  Transformed =>
    /\ \A d \in {last.out.createdAt, last.out.archivedAt, last.out.favoritedAt,
                 last.out.deletedAt, last.out.updatedAt} :
         d = NullDate \/ d \in 1 .. MaxRawDate
    /\ (RawRow.time_favorited = ZeroDate /\ RawRow.favorite = 0) =>
         last.out.favoritedAt = NullDate

\* a favorited, archived, row with zero dates in every column was transformed
C16_Witness ==
  /\ Transformed
  /\ RawRow.favorite = 1
  /\ RawRow.status = 1
  /\ RawRow.time_added = ZeroDate
  /\ RawRow.time_favorited = ZeroDate
  /\ RawRow.time_read = ZeroDate
  /\ RawRow.time_updated = ZeroDate
  /\ last.out.favoritedAt = NullDate

\* part_001 207-222: the modelled resolvers registered under Mutation
RegisteredMutations ==
  {"upsertSavedItem", "updateSavedItemFavorite", "updateSavedItemUnFavorite",
   "updateSavedItemArchive", "updateSavedItemUnArchive", "deleteSavedItem",
   "updateSavedItemUnDelete", "updateSavedItemTags", "updateSavedItemRemoveTags",
   "createTags"}

\* the calls that answer with the saved item they read after their write
ReadBackMutations ==
  {"upsertSavedItem", "updateSavedItemFavorite", "updateSavedItemUnFavorite",
   "updateSavedItemArchive", "updateSavedItemUnArchive", "updateSavedItemTags",
   "updateSavedItemRemoveTags"}

\* the saved item a call record is about
CallItemId(call) ==
  IF call.op = "upsertSavedItem" THEN getOrCreateItem(call.args.url)
  ELSE IF call.op \in {"updateSavedItemTags", "updateSavedItemRemoveTags"}
    THEN call.args.savedItemId
  ELSE call.args.id

\* C17: every resolver registered under Mutation runs on the primary
\* connection from its first storage access on: it reads the primary's table,
\* its write changes the primary and not the replica, and the saved item it
\* reads back is the primary's row after the write.
C17_MutationsRunOnPrimary ==
  [][(last.op = "idle" /\ last'.op \in RegisteredMutations) =>
       /\ last'.dbClient = writeClient
       /\ last'.pre = list
       /\ replica' = replica
       /\ (last'.op \in ReadBackMutations /\ last'.err = Null) =>
            last'.out = getSavedItemById(list', last'.user, CallItemId(last'))]_vars

\* an upsert changed a row that the replica still holds in its older version,
\* and answered with the new one
C17_Witness ==
  /\ last.op = "upsertSavedItem"
  /\ last.err = Null
  /\ replica[<<last.user, CallItemId(last)>>] # Null
  /\ replica[<<last.user, CallItemId(last)>>] # list[<<last.user, CallItemId(last)>>]
  /\ last.out = getSavedItemById(list, last.user, CallItemId(last))
  /\ last.out # getSavedItemById(replica, last.user, CallItemId(last))

\* C18: getById(id) returns an entity only when the table holds a row with
\* user_id = the caller and item_id = id, and the entity is built from that
\* row; otherwise it fails with NotFoundError, also when another user has a row
\* with that item_id.
C18_GetByIdIsUserScoped ==
  last.op = "getById" =>
    LET row == last.pre[<<last.user, ParseInt(last.args.id)>>]
    IN IF row = Null
         THEN last.out = Null /\ last.err = [kind |-> "NotFoundError"]
         ELSE /\ last.err = Null
              /\ last.out.id = row.item_id
              /\ last.out.givenUrl = row.given_url
              /\ last.out.status = statusMap(row.status)
              /\ last.out.favorite = (row.favorite = 1)
              /\ last.out.createdAt = mysqlDateConvert(row.time_added)
              /\ last.out.updatedAt = mysqlDateConvert(row.time_updated)

\* the caller asked for an item that only the other user has saved
C18_Witness ==
  /\ last.op = "getById"
  /\ last.pre[<<last.user, ParseInt(last.args.id)>>] = Null
  /\ \E u \in Users : last.pre[<<u, ParseInt(last.args.id)>>] # Null
  /\ last.err = [kind |-> "NotFoundError"]

C20_Original ==
  (last.op \in RegisteredMutations \cup BulkOps) =>
    \A k \in DOMAIN list :
      /\ list[k] # Null => convert(list[k]).time_updated # NullDate
      /\ last.pre[k] # Null =>
           /\ list[k] # Null
           /\ list[k].time_updated >= last.pre[k].time_updated

\* the single-item resolvers that emit an event
SingleEmitMutations ==
  {"updateSavedItemFavorite", "updateSavedItemUnFavorite", "updateSavedItemArchive",
   "updateSavedItemUnArchive", "deleteSavedItem"}

\* the saved item is in the state an event kind announces
Announces(type, item) ==
  CASE type = "FAVORITE_ITEM" -> item.isFavorite
    [] type = "UNFAVORITE_ITEM" -> ~item.isFavorite
    [] type = "ARCHIVE_ITEM" -> item.isArchived
    [] type = "UNARCHIVE_ITEM" -> ~item.isArchived
    [] type = "DELETE_ITEM" -> item.status = "DELETED"
    [] OTHER -> TRUE

\* C22 as stated: updateSavedItemFavorite, updateSavedItemUnFavorite,
\* updateSavedItemArchive, updateSavedItemUnArchive and deleteSavedItem emit on
\* the state read back after the write: an event is emitted only when the
\* read-back shows an existing item in the state the event kind announces, so
\* no event is emitted for an id that has no saved item of the calling user.
C22_Original ==
  last.op \in SingleEmitMutations =>
    \A e \in DOMAIN last.trace :
      last.trace[e].k = "emit" =>
        /\ last.trace[e].item # Null
        /\ last.trace[e].item = getSavedItemById(list, last.user, last.args.id)
        /\ Announces(last.trace[e].type, last.trace[e].item)

C24_NoWriteWithoutResolvedItem ==
  last.op = "upsertSavedItem" =>
    /\ last.args.fault = "parser" =>
         /\ last.err # Null
         /\ list = last.pre
         /\ Events = <<>>
         /\ \A i \in DOMAIN last.trace : last.trace[i].k # "write"
    /\ \A w \in DOMAIN last.trace :
         last.trace[w].k = "write" =>
           \E p \in DOMAIN last.trace : p < w /\ last.trace[p].k = "parser"

\* the resolver failed for a URL the caller had saved and archived before
C24_Witness ==
  /\ last.op = "upsertSavedItem"
  /\ last.args.fault = "parser"
  /\ UpsertExisting # Null
  /\ UpsertExisting.status = ARCHIVED
  /\ list = last.pre

\* C25: in every successful upsertSavedItem call all events are emitted after
\* the write and after the read-back, each carries the item as read back after
\* the write, and ADD_ITEM or UNARCHIVE_ITEM comes before FAVORITE_ITEM.
C25_UpsertEventsFollowReadBack ==
  UpsertOk =>
    \A e \in DOMAIN last.trace :
      last.trace[e].k = "emit" =>
        /\ \E w, r \in DOMAIN last.trace :
             /\ w < r /\ r < e
             /\ last.trace[w].k = "write"
             /\ last.trace[r].k = "read"
        /\ last.trace[e].item =
             getSavedItemById(list, last.user, getOrCreateItem(last.args.url))
        /\ last.trace[e].item = last.out
        /\ last.trace[e].type = "FAVORITE_ITEM" =>
             \A f \in DOMAIN last.trace :
               (last.trace[f].k = "emit"
                  /\ last.trace[f].type \in {"ADD_ITEM", "UNARCHIVE_ITEM"}) => f < e

\* an archived save was upserted with a new favorite: UNARCHIVE_ITEM, then
\* FAVORITE_ITEM
C25_Witness ==
  /\ UpsertOk
  /\ Len(Events) = 2
  /\ Events[1].type = "UNARCHIVE_ITEM"
  /\ Events[2].type = "FAVORITE_ITEM"
  /\ Events[2].item.isFavorite
  /\ ~Events[2].item.isArchived

\* C27: updateSavedItemRemoveTags deletes the tag associations stored for the
\* given id before it checks that the saved item exists: when the caller has
\* no saved item with that id the call fails with NotFoundError and emits no
\* CLEAR_TAGS, and the associations stored for that id are gone all the same.
C27_RemoveTagsDeletesBeforeExistenceCheck ==
  (last.op = "updateSavedItemRemoveTags"
     /\ getSavedItemById(last.pre, last.user, last.args.savedItemId) = Null) =>
    /\ last.err = [kind |-> "NotFoundError"]
    /\ last.out = Null
    /\ CountEvents("CLEAR_TAGS") = 0
    /\ \A a \in tags : ~(a[1] = last.user /\ a[2] = last.args.savedItemId)
    /\ tags = {a \in last.preTags :
                 ~(a[1] = last.user /\ a[2] = last.args.savedItemId)}
    /\ \E w \in DOMAIN last.trace :
         /\ last.trace[w].k = "write"
         /\ \E r \in DOMAIN last.trace : w < r /\ last.trace[r].k = "read"

\* tags were stored for an id the caller has no saved item for, and the call
\* removed them
C27_Witness ==
  /\ last.op = "updateSavedItemRemoveTags"
  /\ last.pre[<<last.user, last.args.savedItemId>>] = Null
  /\ TagsBefore # {}
  /\ last.err = [kind |-> "NotFoundError"]
  /\ tags # last.preTags

DeleteInput == last.args.input

\* C28: deleteSavedItemTags emits exactly one REMOVE_TAGS event per entry of
\* its input, only after the deletion of all input associations has
\* succeeded; when the deletion fails no REMOVE_TAGS event is emitted and the
\* call fails with an error.
C28_OneRemoveTagsPerInputEntry ==
  last.op = "deleteSavedItemTags" =>
    IF last.args.fault = "write"
      THEN /\ last.err # Null
           /\ last.out = Null
           /\ CountEvents("REMOVE_TAGS") = 0
           /\ tags = last.preTags
      ELSE /\ last.err = Null
           /\ CountEvents("REMOVE_TAGS") = Len(DeleteInput)
           /\ Len(Events) = Len(DeleteInput)
           /\ \A i \in 1 .. Len(DeleteInput) :
                /\ Events[i].type = "REMOVE_TAGS"
                /\ Events[i].aux = decodedTagIds(DeleteInput[i])
                /\ Events[i].item =
                     getSavedItemById(list, last.user, DeleteInput[i].savedItemId)
           /\ \A e \in DOMAIN last.trace :
                last.trace[e].k = "emit" =>
                  \E w \in DOMAIN last.trace : w < e /\ last.trace[w].k = "write"
           /\ \A i \in 1 .. Len(DeleteInput) :
                \A n \in Range(decodedTagIds(DeleteInput[i])) :
                  <<last.user, DeleteInput[i].savedItemId, n>> \notin tags

\* two entries for the same saved item took tags off it: two events
C28_Witness ==
  /\ last.op = "deleteSavedItemTags"
  /\ last.args.fault = "none"
  /\ Len(DeleteInput) = 2
  /\ DeleteInput[1].savedItemId = DeleteInput[2].savedItemId
  /\ last.pre[<<last.user, DeleteInput[1].savedItemId>>] # Null
  /\ tags # last.preTags
  /\ CountEvents("REMOVE_TAGS") = 2

\* an archive request in slot a and an unarchive request in slot b for the
\* same saved item of the same user, both writes applied
ArchiveRace(a, b) ==
  /\ inflight[a] # Null
  /\ inflight[b] # Null
  /\ inflight[a].op = "updateSavedItemArchive"
  /\ inflight[b].op = "updateSavedItemUnArchive"
  /\ inflight[a].user = inflight[b].user
  /\ inflight[a].itemId = inflight[b].itemId
  /\ inflight[a].wrote # 0
  /\ inflight[b].wrote # 0
  /\ list[<<inflight[a].user, inflight[a].itemId>>] # Null

\* C21: when an archive and an unarchive request for the same item of the
\* same user run concurrently, in every interleaving the item's final status
\* is the one written by the storage write applied last (ARCHIVED or UNREAD),
\* never a mixed state such as UNREAD with archivedAt present.
C21_LastArchiveWriteWins ==
  \A a, b \in Slots :
    ArchiveRace(a, b) =>
      LET row == list[<<inflight[a].user, inflight[a].itemId>>]
          item == getSavedItemById(list, inflight[a].user, inflight[a].itemId)
          archivedLast == inflight[a].wrote > inflight[b].wrote
      IN /\ row.status = (IF archivedLast THEN ARCHIVED ELSE UNREAD)
         /\ (row.status = ARCHIVED) <=> (row.time_read # ZeroDate)
         /\ item.isArchived = archivedLast
         /\ (item.archivedAt # NullDate) <=> archivedLast

\* the archive request wrote first and read back after the unarchive
\* request's write: it returns an item that is not archived
C21_Witness ==
  \E a, b \in Slots :
    /\ ArchiveRace(a, b)
    /\ inflight[a].wrote < inflight[b].wrote
    /\ inflight[a].pc = "done"
    /\ inflight[b].pc = "done"
    /\ inflight[a].out # Null
    /\ ~inflight[a].out.isArchived

\* the events a request in flight has emitted, by type
EmittedBy(s, type) ==
  /\ inflight[s] # Null
  /\ \E i \in DOMAIN inflight[s].events : inflight[s].events[i].type = type

\* C26 as stated: when two upsertSavedItem calls for the same URL by the same
\* user run concurrently and no saved item exists beforehand, at most one
\* ADD_ITEM event is emitted for the single row that results.
C26_Original ==
  \A a, b \in Slots :
    (/\ a # b
     /\ inflight[a] # Null
     /\ inflight[b] # Null
     /\ inflight[a].op = "upsertSavedItem"
     /\ inflight[b].op = "upsertSavedItem"
     /\ inflight[a].user = inflight[b].user
     /\ inflight[a].args.url = inflight[b].args.url)
    => ~(EmittedBy(a, "ADD_ITEM") /\ EmittedBy(b, "ADD_ITEM"))

====
